---- MODULE Spec2Model ----
(***************************************************************************)
(* Roll-out coordination of maro.rl.training.rollout_manager:              *)
(*   AbsRolloutManager, LocalRolloutManager and ParallelRolloutManager.    *)
(* A manager object is constructed, then driven by a training loop that    *)
(* calls collect / evaluate / reset one after the other.  collect and      *)
(* evaluate of the parallel manager block in receive calls on the proxy;   *)
(* every such receive is one step of the model.                            *)
(***************************************************************************)
EXTENDS Integers, Sequences, FiniteSets, TLC

(* ------------------------------ bounds -------------------------------- *)
MaxAttempts == 2
MaxStaleness == 1
MaxSegment == 2
MaxTotalSteps == 2
MaxExplorationSteps == 2
MaxHorizon == 3
MaxRounds == 2

(* --------------------------- input domains ---------------------------- *)
ActorCounts == {1, 2}
EvalActorCounts == {1, 2, 3}
Episodes == {1, 2}
PolicyNames == {"p1", "p2"}
PolicyStates == {[p \in {"p1"} |-> "theta"]}
LocalPolicyStates == PolicyStates \cup {[p \in {"p1", "p3"} |-> "theta"]}
AgentToPolicy == {[a \in {"agent"} |-> "p1"], [a \in {"agent"} |-> "p3"]}
Summaries == {"s1", "s2"}
ExplorationDicts == {"None", "empty", "schemes"}
ParallelNumSteps == {-1}
LocalNumSteps == {-2, -1, 0, 1, 2}
GivenNumSteps == {-2, -1, 0, 1}

\* ExperienceSet.size of one policy's experience (a sequence of transitions)
ExpSize(exp) == Len(exp)

\* ExperienceSet.extend: the other set's transitions are appended
Extend(mine, other) == mine \o other

\* defaultdict(ExperienceSet)() : no policy has an entry yet
EmptyDict == [p \in {} |-> <<>>]

\* what a roll-out reports: per-policy experience and the steps it took
Rollouts ==
    { [experiences |-> [p \in {"p1"} |-> <<"a">>], num_steps |-> 2],
      [experiences |-> [p \in {"p1", "p2"} |-> IF p = "p1" THEN <<"b">> ELSE <<"c", "d">>],
       num_steps |-> 1] }

\* the messages an actor (or a stray peer) can put on the bus, with the fields
\* the manager reads: collect never reads the source of a message
CollectDoneMsgs ==
    { [tag |-> "COLLECT_DONE", episode_index |-> e, segment_index |-> s,
       num_steps |-> r.num_steps, experiences |-> r.experiences, episode_end |-> b] :
      e \in Episodes, s \in 0..MaxSegment, r \in Rollouts, b \in BOOLEAN }

EvalDoneMsgs(actors) ==
    [tag : {"EVAL_DONE"}, source : actors, episode_index : Episodes,
     env_summary : Summaries]

Messages(actors) == CollectDoneMsgs \cup EvalDoneMsgs(actors)

(* ------------------------------- state -------------------------------- *)
VARIABLES
    kind,                         \* "none" | "local" | "parallel"
    pc,                           \* "new" | "idle" | "collect" | "evaluate" | "error"
    error,                        \* the exception that ended construction or the last call
    has_episode_complete,         \* the attribute episode_complete exists
    episode_complete,
    exploration_dict,
    exploration_steps,            \* calls of step() made on every exploration scheme
    num_steps,                    \* self._num_steps
    num_actors,
    max_receive_attempts,
    receive_timeout,              \* FALSE: None (blocking); TRUE: a timeout is set
    max_staleness,
    num_eval_actors,
    proxy_open,                   \* self._proxy exists: the connection to the bus is open
    total_experiences_collected,
    total_env_steps,
    exploration_update,           \* self._exploration_update
    episode_index,                \* arguments of the running call
    segment_index,
    policy_state_dict,
    sent,                         \* messages handed to the proxy by the running call
    combined_exp_by_policy,
    num_finishes,
    attempt,                      \* receive attempts made by the running call
    env_summary_dict,
    result,                       \* value returned by the last collect / evaluate
    last_round,                   \* history: how the last finished collect round ended
    accepted,                     \* history: roll-outs the running call merged, in order
    ended,                        \* history: counted responses that reported episode_end
    discarded,                    \* history: unexpected messages the running call dropped
    start_totals,                 \* history: the two totals when the running call began
    last_call,                    \* history: "none" | "collect" | "evaluate"
    eval_finishes,                \* num_finishes of evaluate
    answered,                     \* history: <<source, summary>> evaluate recorded, in order
    env_state,                    \* env.state: TRUE a pending state, FALSE None
    env_step_index,
    env_horizon,                  \* the step at which env reaches its terminal state
    eval_env_shared,              \* eval_env is env
    steps_executed,               \* history: env.step calls made by the last collect
    remaining_before,             \* history: steps env had left when that collect began
    requests,                     \* COLLECT requests delivered to an actor, not yet answered
    inbox,                        \* answers of the actors that the manager has not yet read
    round,                        \* history: COLLECT broadcasts made so far
    merged_from                   \* history: <<actor, round>> of the answers the round merged

config == <<exploration_dict, num_steps, num_actors, max_receive_attempts,
            receive_timeout, max_staleness, num_eval_actors, proxy_open>>
counters == <<total_experiences_collected, total_env_steps>>
args == <<episode_index, segment_index, policy_state_dict>>
locals == <<combined_exp_by_policy, num_finishes, attempt, env_summary_dict>>
history == <<last_round, accepted, ended, discarded, start_totals>>
eval_vars == <<eval_finishes, answered>>
local_vars == <<env_state, env_step_index, env_horizon, eval_env_shared,
                steps_executed, remaining_before>>

bus_vars == <<requests, inbox, round, merged_from>>

manager_vars ==
    <<kind, pc, error, has_episode_complete, episode_complete, exploration_steps,
      exploration_update, sent, result, config, counters, args, locals, history,
      last_call, eval_vars, local_vars>>

vars == <<manager_vars, bus_vars>>

Actors == 1..num_actors

Init ==
    /\ kind = "none"
    /\ pc = "new"
    /\ error = "none"
    /\ has_episode_complete = FALSE
    /\ episode_complete = FALSE
    /\ exploration_dict = "None"
    /\ exploration_steps = 0
    /\ num_steps = -1
    /\ num_actors = 0
    /\ max_receive_attempts = 0
    /\ receive_timeout = FALSE
    /\ max_staleness = 0
    /\ num_eval_actors = 0
    /\ proxy_open = FALSE
    /\ total_experiences_collected = 0
    /\ total_env_steps = 0
    /\ exploration_update = FALSE
    /\ episode_index = 0
    /\ segment_index = 0
    /\ policy_state_dict = [p \in {} |-> "theta"]
    /\ sent = <<>>
    /\ combined_exp_by_policy = EmptyDict
    /\ num_finishes = 0
    /\ attempt = 0
    /\ env_summary_dict = EmptyDict
    /\ result = EmptyDict
    /\ last_round = "none"
    /\ accepted = <<>>
    /\ ended = 0
    /\ discarded = 0
    /\ start_totals = <<0, 0>>
    /\ last_call = "none"
    /\ eval_finishes = 0
    /\ answered = <<>>
    /\ env_state = FALSE
    /\ env_step_index = 0
    /\ env_horizon = 0
    /\ eval_env_shared = FALSE
    /\ steps_executed = 0
    /\ remaining_before = 0
    /\ requests = {}
    /\ inbox = <<>>
    /\ round = 0
    /\ merged_from = <<>>

(* ---------------------- ParallelRolloutManager ------------------------ *)

\* bool(exploration_dict): None and {} are falsy
Truthy(d) == d = "schemes"

\* __init__, lines 282-286: None (0 here) means num_actors
DefaultAttemptsOne(given, n) == IF given = 0 THEN 1 ELSE given
DefaultAttempts(given, n) == IF given = 0 THEN n ELSE given

\* line 270
ExceedsRosterByTwo(k, n) == k > n + 1
ExceedsRoster(k, n) == k > n

\* lines 269-296: line 269 runs __init__ of AbsRolloutManager before the check of
\* line 270; line 276 opens the proxy after it
ParallelInit(n, attempts, timeout, staleness, k, expl, steps) ==
    /\ pc = "new"
    /\ kind' = "parallel"
    /\ has_episode_complete' = TRUE
    /\ episode_complete' = FALSE
    /\ IF ExceedsRoster(k, n)
         THEN /\ pc' = "error"
              /\ error' = "ValueError"
              /\ UNCHANGED <<config, exploration_update>>
         ELSE /\ pc' = "idle"
              /\ error' = "none"
              /\ num_actors' = n
              /\ proxy_open' = TRUE
              /\ exploration_dict' = expl
              /\ num_steps' = steps
              /\ max_receive_attempts' = DefaultAttempts(attempts, n)
              /\ receive_timeout' = timeout
              /\ max_staleness' = staleness
              /\ num_eval_actors' = k
              /\ exploration_update' = TRUE
    /\ UNCHANGED <<exploration_steps, sent, result, counters, args, locals, history,
                   last_call, eval_vars, local_vars>>

Reset ==
    /\ pc = "idle"
    /\ has_episode_complete' = TRUE
    /\ episode_complete' = FALSE
    /\ UNCHANGED <<kind, pc, error, exploration_steps, exploration_update, sent,
                   result, config, counters, args, locals, history, last_call,
                   eval_vars, local_vars, bus_vars>>

\* line 324, negated: the message is the answer collect waits for
IsExpectedAnyEpisode(m, ep) == m.tag = "COLLECT_DONE"
IsExpected(m, ep) == m.tag = "COLLECT_DONE" /\ m.episode_index = ep

\* line 331
StrictlyWithinStaleness(segment, msg_segment, staleness) ==
    segment - msg_segment < staleness
WithinStaleness(segment, msg_segment, staleness) == segment - msg_segment <= staleness

\* line 333
TotalSize(exp_by_policy) ==
    LET RECURSIVE Sum(_)
        Sum(S) == IF S = {} THEN 0
                  ELSE LET p == CHOOSE q \in S : TRUE
                       IN ExpSize(exp_by_policy[p]) + Sum(S \ {p})
    IN Sum(DOMAIN exp_by_policy)

\* lines 336-337
MergeReplacing(combined, exp_by_policy) ==
    [p \in DOMAIN combined \cup DOMAIN exp_by_policy |->
        IF p \in DOMAIN exp_by_policy THEN exp_by_policy[p] ELSE combined[p]]
Merge(combined, exp_by_policy) ==
    [p \in DOMAIN combined \cup DOMAIN exp_by_policy |->
        IF p \in DOMAIN exp_by_policy
          THEN Extend(IF p \in DOMAIN combined THEN combined[p] ELSE <<>>,
                      exp_by_policy[p])
          ELSE combined[p]]

\* line 339
IsCurrentSegmentOrOlder(segment, msg_segment) == msg_segment <= segment
IsCurrentSegment(segment, msg_segment) == msg_segment = segment

\* line 340
ReportedCompletion(complete, episode_end) == episode_end

\* line 346
QuorumNever(finishes, n) == finishes > n
Quorum(finishes, n) == finishes = n

\* line 322: the loop runs out after this attempt
Exhausted(attempts_made, limit) == attempts_made >= limit

\* lines 349-353
ExplorationDirtyAlways(complete, expl) == Truthy(expl)
ExplorationDirtyNever(complete, expl) == FALSE
ExplorationDirty(complete, expl) == complete /\ Truthy(expl)

\* lines 349-355, after the receive loop
CollectReturn(complete, combined) ==
    /\ pc' = "idle"
    /\ error' = "none"
    /\ result' = combined
    /\ last_round' = IF complete THEN "complete" ELSE "open"
    /\ IF ExplorationDirty(complete, exploration_dict)
         THEN /\ exploration_steps' = exploration_steps + 1
              /\ exploration_update' = TRUE
         ELSE UNCHANGED <<exploration_steps, exploration_update>>

\* lines 303-316: the body of the COLLECT request
CollectRequest(ep, seg, steps, psd, with_exploration) ==
    [tag |-> "COLLECT", to |-> "actor", episode_index |-> ep, segment_index |-> seg,
     num_steps |-> steps, policy |-> psd, exploration |-> with_exploration]

\* lines 300-321: build the request, broadcast it, start receiving
CollectBegin(ep, seg, psd) ==
    /\ kind = "parallel"
    /\ pc = "idle"
    /\ total_env_steps < MaxTotalSteps
    /\ exploration_steps < MaxExplorationSteps
    /\ episode_index' = ep
    /\ segment_index' = seg
    /\ policy_state_dict' = psd
    /\ result' = EmptyDict
    /\ last_call' = "collect"
    /\ start_totals' = <<total_experiences_collected, total_env_steps>>
    /\ accepted' = <<>>
    /\ ended' = 0
    /\ discarded' = 0
    /\ IF exploration_update /\ exploration_dict = "None"
         THEN \* line 312: None.items()
              /\ pc' = "error"
              /\ error' = "AttributeError"
              /\ sent' = <<>>
              /\ UNCHANGED <<exploration_update, locals>>
         ELSE /\ pc' = "collect"
              /\ error' = "none"
              /\ exploration_update' = FALSE
              /\ sent' = << CollectRequest(ep, seg, num_steps, psd, exploration_update) >>
              /\ combined_exp_by_policy' = EmptyDict
              /\ num_finishes' = 0
              /\ attempt' = 0
              /\ UNCHANGED env_summary_dict
    /\ UNCHANGED <<kind, has_episode_complete, episode_complete, exploration_steps,
                   config, counters, last_round, eval_vars, local_vars>>

\* lines 322-347: one iteration of the receive loop, and lines 349-355 when it ends
CollectReceive(m) ==
    /\ pc = "collect"
    /\ attempt < max_receive_attempts
    /\ attempt' = attempt + 1
    /\ LET expected == IsExpected(m, episode_index)
           merged == expected
                     /\ WithinStaleness(segment_index, m.segment_index, max_staleness)
           counted == merged /\ IsCurrentSegment(segment_index, m.segment_index)
           combined == IF merged THEN Merge(combined_exp_by_policy, m.experiences)
                       ELSE combined_exp_by_policy
           complete == IF counted THEN ReportedCompletion(episode_complete, m.episode_end)
                       ELSE episode_complete
           finishes == IF counted THEN num_finishes + 1 ELSE num_finishes
           stop == (counted /\ Quorum(finishes, num_actors))
                   \/ Exhausted(attempt + 1, max_receive_attempts)
       IN /\ total_env_steps' =
                IF merged THEN total_env_steps + m.num_steps ELSE total_env_steps
          /\ total_experiences_collected' =
                IF merged THEN total_experiences_collected + TotalSize(m.experiences)
                ELSE total_experiences_collected
          /\ episode_complete' = complete
          /\ num_finishes' = finishes
          /\ combined_exp_by_policy' = combined
          /\ accepted' = IF merged
                          THEN Append(accepted, [experiences |-> m.experiences,
                                                 num_steps |-> m.num_steps])
                          ELSE accepted
          /\ ended' = IF counted /\ m.episode_end THEN ended + 1 ELSE ended
          /\ discarded' = IF expected THEN discarded ELSE discarded + 1
          /\ IF stop
               THEN CollectReturn(complete, combined)
               ELSE UNCHANGED <<pc, error, result, last_round, exploration_steps,
                                exploration_update>>
    /\ UNCHANGED <<kind, has_episode_complete, sent, config, args, env_summary_dict,
                   start_totals, last_call, eval_vars, local_vars>>

\* Proxy.receive_once(timeout): with a timeout set, an attempt that sees no message
\* within it ends and hands back no message (None)
CanTimeOut(timeout) == timeout

\* line 323 times out and hands back None; line 324 then reads msg.tag
CollectReceiveTimeout ==
    /\ pc = "collect"
    /\ CanTimeOut(receive_timeout)
    /\ attempt < max_receive_attempts
    /\ attempt' = attempt + 1
    /\ pc' = "error"
    /\ error' = "AttributeError"
    /\ UNCHANGED <<kind, has_episode_complete, episode_complete, exploration_steps,
                   exploration_update, sent, result, config, counters, args,
                   combined_exp_by_policy, num_finishes, env_summary_dict, history,
                   last_call, eval_vars, local_vars, bus_vars>>

ParallelConstruct ==
    \E n \in ActorCounts, attempts \in 0..MaxAttempts, timeout \in BOOLEAN,
       staleness \in 0..MaxStaleness, expl \in ExplorationDicts,
       steps \in ParallelNumSteps :
        ParallelInit(n, attempts, timeout, staleness, 1, expl, steps)
        /\ UNCHANGED bus_vars

Collect ==
    \E ep \in Episodes, seg \in 0..MaxSegment, psd \in PolicyStates :
        CollectBegin(ep, seg, psd) /\ UNCHANGED bus_vars

Receive == \E m \in Messages(Actors) : CollectReceive(m) /\ UNCHANGED bus_vars

Next ==
    \/ ParallelConstruct
    \/ Reset
    \/ Collect
    \/ Receive
    \/ CollectReceiveTimeout

Spec == Init /\ [][Next]_vars

(* ------------------- claims on ParallelRolloutManager.collect ---------- *)

\* a collect round has run to its return
RoundEnded == kind = "parallel" /\ pc = "idle" /\ last_call = "collect"

\* the step hands the COLLECT request to the proxy
BroadcastStep == pc = "idle" /\ pc' = "collect"

\* the step merges the roll-out of m into the round's result and the totals
Merges(m) ==
    /\ combined_exp_by_policy' = Merge(combined_exp_by_policy, m.experiences)
    /\ total_experiences_collected' =
          total_experiences_collected + TotalSize(m.experiences)
    /\ total_env_steps' = total_env_steps + m.num_steps

\* the step leaves the round's result and the totals alone
LeavesResult ==
    UNCHANGED <<combined_exp_by_policy, total_experiences_collected, total_env_steps>>

C2_UnexpectedMessageDiscarded ==
    [][\A m \in Messages(Actors) :
          ((m.tag # "COLLECT_DONE" \/ m.episode_index # episode_index)
             /\ CollectReceive(m)) =>
             /\ LeavesResult
             /\ UNCHANGED <<num_finishes, episode_complete>>
             /\ attempt' = attempt + 1
             /\ (attempt' < max_receive_attempts) => pc' = "collect"]_vars

\* C2 witness: a message was discarded and collect is still receiving.
C2_Witness == pc = "collect" /\ discarded > 0 /\ attempt < max_receive_attempts

\* C3: after a collect round episode_complete is true only if every actor answered
\* for the requested segment and every such answer reported episode_end.
C3_CompleteOnlyIfAllActorsEnded ==
    (RoundEnded /\ episode_complete) =>
        (num_finishes = num_actors /\ ended = num_finishes)

\* C4 (as amended): a COLLECT broadcast carries the exploration parameters if and
\* only if it is the first broadcast since construction, or the collect round
\* before it ended with episode_complete true and the manager has exploration
\* schemes.
C4_ExplorationSentOncePerCompletion ==
    [][BroadcastStep =>
          (sent'[1].exploration <=>
              (last_round = "none"
                 \/ (last_round = "complete" /\ exploration_dict = "schemes")))]_vars

\* C4 as first stated: a COLLECT broadcast carries the exploration parameters if
\* and only if the collect round before it ended with episode_complete true.
C4_AsStated ==
    [][BroadcastStep => (sent'[1].exploration <=> last_round = "complete")]_vars

\* C4 witness: a later broadcast carries the parameters after a completed round.
C4_Witness ==
    pc = "collect" /\ last_round = "complete" /\ sent[1].exploration

C6_ExhaustionReturnsNormally ==
    (kind = "parallel" /\ pc \in {"idle", "error"} /\ max_receive_attempts > 0
       /\ attempt = max_receive_attempts) =>
        (pc = "idle" /\ error = "none" /\ result = combined_exp_by_policy)

\* the transitions of policy p in the roll-outs rs, in order
RECURSIVE InArrivalOrder(_, _)
InArrivalOrder(p, rs) ==
    IF rs = <<>> THEN <<>>
    ELSE (IF p \in DOMAIN Head(rs).experiences THEN Head(rs).experiences[p] ELSE <<>>)
         \o InArrivalOrder(p, Tail(rs))

\* the number of transitions, over both policies, in the roll-outs rs
SumOfSizes(rs) == Len(InArrivalOrder("p1", rs)) + Len(InArrivalOrder("p2", rs))

\* the number of environment steps reported by the roll-outs rs
RECURSIVE SumOfSteps(_)
SumOfSteps(rs) == IF rs = <<>> THEN 0 ELSE Head(rs).num_steps + SumOfSteps(Tail(rs))

\* C7: what collect returns holds, for each policy, exactly the experience of the
\* messages merged during this call, concatenated in arrival order; its size is the
\* sum of their sizes, and the two totals grew during the call by exactly the summed
\* sizes and the summed step counts of those messages.
C7_ResultIsConcatenationOfAccepted ==
    (kind = "parallel" /\ pc \in {"collect", "idle"}) =>
        /\ DOMAIN combined_exp_by_policy =
              UNION {DOMAIN accepted[i].experiences : i \in 1..Len(accepted)}
        /\ \A p \in DOMAIN combined_exp_by_policy :
              combined_exp_by_policy[p] = InArrivalOrder(p, accepted)
        /\ TotalSize(combined_exp_by_policy) = SumOfSizes(accepted)
        /\ total_experiences_collected =
              start_totals[1] + SumOfSizes(accepted)
        /\ total_env_steps = start_totals[2] + SumOfSteps(accepted)
        /\ RoundEnded => result = combined_exp_by_policy

\* C7 witness: a second call returned two merged messages, both with experience
\* of policy p1, after an earlier call had already raised the totals.
C7_Witness ==
    /\ RoundEnded
    /\ Len(accepted) = 2
    /\ accepted[1] # accepted[2]
    /\ Len(result["p1"]) = 2
    /\ start_totals[2] > 0

(* ------------------ ParallelRolloutManager.evaluate -------------------- *)

\* lines 369-371: one EVAL request for every sampled actor
EvalRequests(actors, ep, psd) ==
    [i \in DOMAIN actors |->
        [tag |-> "EVAL", to |-> actors[i], episode_index |-> ep, policy |-> psd]]

\* line 377, negated
IsEvalAnswerAnyEpisode(m, ep) == m.tag = "EVAL_DONE"
IsEvalAnswer(m, ep) == m.tag = "EVAL_DONE" /\ m.episode_index = ep

\* line 384
RecordKeepingFirst(summaries, source, summary) ==
    [a \in DOMAIN summaries \cup {source} |->
        IF a \in DOMAIN summaries THEN summaries[a] ELSE summary]
Record(summaries, source, summary) ==
    [a \in DOMAIN summaries \cup {source} |->
        IF a = source THEN summary ELSE summaries[a]]

\* the scatter of evaluate, were it to clear the dirty flag as line 314 of collect does
EvaluateBeginClearingDirty(ep, psd, actors) ==
    /\ kind = "parallel"
    /\ pc = "idle"
    /\ pc' = "evaluate"
    /\ error' = "none"
    /\ last_call' = "evaluate"
    /\ episode_index' = ep
    /\ policy_state_dict' = psd
    /\ sent' = EvalRequests(actors, ep, psd)
    /\ env_summary_dict' = EmptyDict
    /\ eval_finishes' = 0
    /\ answered' = <<>>
    /\ result' = EmptyDict
    /\ exploration_update' = FALSE
    /\ UNCHANGED <<kind, has_episode_complete, episode_complete, exploration_steps,
                   config, counters, segment_index,
                   combined_exp_by_policy, num_finishes, attempt, history, local_vars>>

\* lines 367-375: sample the actors with repetition, scatter the requests
EvaluateBegin(ep, psd, actors) ==
    /\ kind = "parallel"
    /\ pc = "idle"
    /\ pc' = "evaluate"
    /\ error' = "none"
    /\ last_call' = "evaluate"
    /\ episode_index' = ep
    /\ policy_state_dict' = psd
    /\ sent' = EvalRequests(actors, ep, psd)
    /\ env_summary_dict' = EmptyDict
    /\ eval_finishes' = 0
    /\ answered' = <<>>
    /\ result' = EmptyDict
    /\ UNCHANGED <<kind, has_episode_complete, episode_complete, exploration_steps,
                   exploration_update, config, counters, segment_index,
                   combined_exp_by_policy, num_finishes, attempt, history, local_vars>>

\* lines 376-391: one message of the receive loop, and the return when it ends
EvaluateReceive(m) ==
    /\ pc = "evaluate"
    /\ IF ~IsEvalAnswer(m, episode_index)
         THEN UNCHANGED <<pc, env_summary_dict, eval_finishes, answered, result>>
         ELSE LET summaries == Record(env_summary_dict, m.source, m.env_summary)
              IN /\ env_summary_dict' = summaries
                 /\ eval_finishes' = eval_finishes + 1
                 /\ answered' = Append(answered, <<m.source, m.env_summary>>)
                 /\ IF eval_finishes + 1 = num_eval_actors
                      THEN pc' = "idle" /\ result' = summaries
                      ELSE UNCHANGED <<pc, result>>
    /\ UNCHANGED <<kind, error, has_episode_complete, episode_complete,
                   exploration_steps, exploration_update, sent, config, counters, args,
                   combined_exp_by_policy, num_finishes, attempt, history, last_call,
                   local_vars>>

ParallelConstructForEvaluate ==
    \E n \in ActorCounts, k \in EvalActorCounts, steps \in GivenNumSteps :
        ParallelInit(n, 0, FALSE, 0, k, "schemes", steps) /\ UNCHANGED bus_vars

Evaluate ==
    \E ep \in Episodes, psd \in PolicyStates,
       actors \in [1..num_eval_actors -> Actors] :
        EvaluateBegin(ep, psd, actors) /\ UNCHANGED bus_vars

ReceiveEvaluation ==
    \E m \in Messages(Actors) : EvaluateReceive(m) /\ UNCHANGED bus_vars

NextEvaluate ==
    \/ ParallelConstructForEvaluate
    \/ Reset
    \/ Evaluate
    \/ ReceiveEvaluation

SpecEvaluate == Init /\ [][NextEvaluate]_vars

\* an evaluate call has run to its return
EvaluateEnded == kind = "parallel" /\ pc = "idle" /\ last_call = "evaluate"

\* the summary that the last recorded answer of actor a carried
RECURSIVE LastAnswerOf(_, _)
LastAnswerOf(a, answers) ==
    IF answers[Len(answers)][1] = a THEN answers[Len(answers)][2]
    ELSE LastAnswerOf(a, SubSeq(answers, 1, Len(answers) - 1))

\* C10: evaluate with num_eval_actors = k scatters exactly k EVAL requests, each to
\* an actor of the roster and each carrying the episode index and the policy state;
\* the mapping it returns has at most k entries, its keys are exactly the sources of
\* the EVAL_DONE messages of that episode it received, and each entry is the summary
\* of the last such message from that source.
C10_EvaluateScattersAndRecords ==
    (kind = "parallel" /\ last_call = "evaluate") =>
        /\ Len(sent) = num_eval_actors
        /\ \A i \in 1..Len(sent) :
              /\ sent[i].tag = "EVAL"
              /\ sent[i].to \in Actors
              /\ sent[i].episode_index = episode_index
              /\ sent[i].policy = policy_state_dict
        /\ DOMAIN env_summary_dict = {answered[i][1] : i \in 1..Len(answered)}
        /\ \A a \in DOMAIN env_summary_dict :
              env_summary_dict[a] = LastAnswerOf(a, answered)
        /\ EvaluateEnded =>
              /\ result = env_summary_dict
              /\ Len(answered) = num_eval_actors
              /\ Cardinality(DOMAIN result) <= num_eval_actors

\* C10 witness: two requests went to the same actor, it answered twice with different
\* summaries, and the returned mapping holds one entry, the later summary.
C10_Witness ==
    /\ EvaluateEnded
    /\ num_eval_actors = 2
    /\ sent[1].to = sent[2].to
    /\ answered[1][1] = answered[2][1]
    /\ answered[1][2] # answered[2][2]
    /\ Cardinality(DOMAIN result) = 1
    /\ result[answered[2][1]] = answered[2][2]

(* ------------------------ LocalRolloutManager -------------------------- *)

\* float("inf"), the step budget that line 123 gives num_steps = -1
Infinity == -1

\* line 93
InvalidNumSteps(steps) == steps = 0 \/ steps < -1

\* line 123
StepBudget(steps) == IF steps > 0 THEN steps ELSE Infinity

\* line 156: steps_to_go > 0
StepsLeft(to_go) == to_go = Infinity \/ to_go > 0

\* line 168: steps_to_go -= 1
OneStepLess(to_go) == IF to_go = Infinity THEN Infinity ELSE to_go - 1

\* env.step: the step index grows by one; the state after the horizon-th step is None
EnvStep(env) ==
    [state |-> env.step_index + 1 < env.horizon, step_index |-> env.step_index + 1,
     horizon |-> env.horizon]

\* env.reset() and env.start(): the initial state, at step index 0
EnvStart(horizon) == [state |-> horizon > 0, step_index |-> 0, horizon |-> horizon]

\* lines 156-168: the roll-out loop
RECURSIVE RollOut(_, _)
RollOut(env, to_go) ==
    IF env.state /\ StepsLeft(to_go) THEN RollOut(EnvStep(env), OneStepLess(to_go))
    ELSE env

\* lines 176-180: the schemes are stepped when the roll-out left no pending state
SteppedAlways(pending, expl, steps) == IF Truthy(expl) THEN steps + 1 ELSE steps
Stepped(pending, expl, steps) ==
    IF ~pending /\ Truthy(expl) THEN steps + 1 ELSE steps

\* lines 104-106 and 220-221: self.policy_dict[policy_name] for every name looked up;
\* a name that is not a key raises KeyError
KnownAlways(names) == TRUE
Known(names) == names \subseteq PolicyNames

\* the policy names an agent-to-policy mapping refers to
Range(f) == {f[a] : a \in DOMAIN f}

\* lines 81-124; __init__ of AbsRolloutManager (line 25) is not called
LocalInit(steps, expl, horizon, shared, agent2policy) ==
    /\ pc = "new"
    /\ kind' = "local"
    /\ IF InvalidNumSteps(steps) \/ ~Known(Range(agent2policy))
         THEN /\ pc' = "error"
              /\ error' = IF InvalidNumSteps(steps) THEN "ValueError" ELSE "KeyError"
              /\ UNCHANGED <<num_steps, exploration_dict, env_horizon, eval_env_shared>>
         ELSE /\ pc' = "idle"
              /\ error' = "none"
              /\ num_steps' = StepBudget(steps)
              /\ exploration_dict' = expl
              /\ env_horizon' = horizon
              /\ eval_env_shared' = shared
    /\ UNCHANGED <<has_episode_complete, episode_complete, exploration_steps,
                   exploration_update, sent, result, num_actors, max_receive_attempts,
                   receive_timeout, max_staleness, num_eval_actors, proxy_open,
                   counters, args, locals, history, last_call, eval_vars, env_state,
                   env_step_index,
                   steps_executed, remaining_before>>

\* lines 126-194
LocalCollect(ep, seg, psd) ==
    /\ kind = "local"
    /\ pc = "idle"
    /\ exploration_steps < MaxExplorationSteps
    /\ last_call' = "collect"
    /\ episode_index' = ep
    /\ segment_index' = seg
    /\ policy_state_dict' = psd
    /\ LET started == IF ~env_state THEN EnvStart(env_horizon)
                      ELSE [state |-> env_state, step_index |-> env_step_index,
                            horizon |-> env_horizon]
           \* line 152 raises before the loop of line 156 is entered
           loaded == Known(DOMAIN psd)
           after == IF loaded THEN RollOut(started, num_steps) ELSE started
       IN /\ pc' = IF loaded THEN "idle" ELSE "error"
          /\ error' = IF loaded THEN "none" ELSE "KeyError"
          /\ env_state' = after.state
          /\ env_step_index' = after.step_index
          /\ steps_executed' = after.step_index - started.step_index
          /\ remaining_before' = started.horizon - started.step_index
          /\ exploration_steps' =
                IF loaded THEN Stepped(after.state, exploration_dict, exploration_steps)
                ELSE exploration_steps
          /\ IF loaded /\ ~after.state
               THEN /\ has_episode_complete' = TRUE
                    /\ episode_complete' = TRUE
               ELSE UNCHANGED <<has_episode_complete, episode_complete>>
    /\ UNCHANGED <<kind, exploration_update, sent, result, config, counters,
                   locals, history, eval_vars, env_horizon, eval_env_shared>>

\* lines 196-217
LocalEvaluate(ep, psd) ==
    /\ kind = "local"
    /\ pc = "idle"
    /\ last_call' = "evaluate"
    /\ episode_index' = ep
    /\ policy_state_dict' = psd
    /\ LET \* line 207 raises before line 208 resets the environment
           loaded == Known(DOMAIN psd)
           after == RollOut(EnvStart(env_horizon), Infinity)
       IN /\ pc' = IF loaded THEN "idle" ELSE "error"
          /\ error' = IF loaded THEN "none" ELSE "KeyError"
          /\ IF loaded /\ eval_env_shared
               THEN env_state' = after.state /\ env_step_index' = after.step_index
               ELSE UNCHANGED <<env_state, env_step_index>>
    /\ UNCHANGED <<kind, has_episode_complete, episode_complete,
                   exploration_steps, exploration_update, sent, result, config,
                   counters, segment_index, locals, history, eval_vars, env_horizon,
                   eval_env_shared, steps_executed, remaining_before>>

LocalConstruct ==
    \E steps \in LocalNumSteps, expl \in ExplorationDicts, horizon \in 1..MaxHorizon,
       shared \in BOOLEAN, agent2policy \in AgentToPolicy :
        LocalInit(steps, expl, horizon, shared, agent2policy) /\ UNCHANGED bus_vars

CollectLocally ==
    \E ep \in Episodes, seg \in 0..MaxSegment, psd \in LocalPolicyStates :
        LocalCollect(ep, seg, psd) /\ UNCHANGED bus_vars

EvaluateLocally ==
    \E ep \in Episodes, psd \in LocalPolicyStates :
        LocalEvaluate(ep, psd) /\ UNCHANGED bus_vars

NextLocal ==
    \/ LocalConstruct
    \/ Reset
    \/ CollectLocally
    \/ EvaluateLocally

SpecLocal == Init /\ [][NextLocal]_vars

\* a collect call of the local manager has run to its return
LocalCollectEnded == kind = "local" /\ pc = "idle" /\ last_call = "collect"

\* C8: a collect call of the local manager with bounded budget n executes exactly
\* min(n, remaining steps) environment steps, and with the unbounded budget all
\* remaining steps; after the call episode_complete is true if the environment
\* reached its terminal state and is false otherwise.
C8_LocalCollectStepsAndCompletion ==
    LocalCollectEnded =>
        /\ steps_executed =
              IF num_steps # Infinity /\ num_steps < remaining_before THEN num_steps
              ELSE remaining_before
        /\ has_episode_complete
        /\ episode_complete <=> ~env_state

\* C9: episode_complete exists and is false right after construction, only collect
\* makes it true, and reset() sets it to false and changes nothing else.
C9_EpisodeCompleteLifecycle ==
    [][/\ (pc = "new" /\ pc' = "idle") => (has_episode_complete' /\ ~episode_complete')
       /\ (episode_complete' /\ ~episode_complete) => last_call' = "collect"
       /\ Reset =>
             /\ has_episode_complete' /\ ~episode_complete'
             /\ UNCHANGED <<kind, pc, error, exploration_steps, exploration_update,
                            sent, result, config, counters, args, locals, history,
                            last_call, eval_vars, local_vars>>]_vars

(* ------------------ claims on construction of the managers ------------- *)

\* what construction stores on the manager, beyond episode_complete
Configuration == <<config, exploration_update, counters>>

\* C11 (as amended): constructing a ParallelRolloutManager with num_eval_actors >
\* num_actors raises ValueError after the base constructor has set episode_complete
\* to False and before anything else: the proxy is not opened and nothing of the
\* configuration is stored, so no manager comes out of it; with num_eval_actors <=
\* num_actors construction succeeds, opens the proxy and stores both numbers.
C11_TooManyEvalActorsRejected ==
    [][\A n \in ActorCounts, k \in EvalActorCounts, steps \in GivenNumSteps :
          ParallelInit(n, 0, FALSE, 0, k, "schemes", steps) =>
             /\ (k > n) =>
                   /\ pc' = "error" /\ error' = "ValueError"
                   /\ ~proxy_open'
                   /\ UNCHANGED Configuration
                   /\ has_episode_complete' /\ ~episode_complete'
             /\ (k <= n) =>
                   /\ pc' = "idle" /\ error' = "none"
                   /\ proxy_open'
                   /\ num_actors' = n /\ num_eval_actors' = k]_vars

\* C11 as first stated: the failure comes before any state of the manager is
\* created, episode_complete included.
C11_AsStated ==
    [][\A n \in ActorCounts, k \in EvalActorCounts, steps \in GivenNumSteps :
          ParallelInit(n, 0, FALSE, 0, k, "schemes", steps) =>
             /\ (k > n) =>
                   /\ pc' = "error" /\ error' = "ValueError"
                   /\ ~proxy_open'
                   /\ UNCHANGED Configuration
                   /\ UNCHANGED <<has_episode_complete, episode_complete>>
             /\ (k <= n) => (pc' = "idle" /\ proxy_open')]_vars

\* C11 witness: a construction was refused, and left no proxy behind.
C11_Witness ==
    kind = "parallel" /\ pc = "error" /\ error = "ValueError" /\ ~proxy_open

(* ---------------- claims on LocalRolloutManager.evaluate --------------- *)

\* C12: evaluate of the local manager leaves the training state as it was, also
\* when eval_env is the training environment: episode_complete, the steps taken by
\* the exploration schemes, and the pending state and step index of the training
\* environment are the same after the call as before it.
C12_LocalEvaluateLeavesTraining ==
    [][\A ep \in Episodes, psd \in LocalPolicyStates :
          LocalEvaluate(ep, psd) =>
             UNCHANGED <<has_episode_complete, episode_complete, exploration_steps,
                         env_state, env_step_index>>]_vars

\* C13: no manager, local or parallel, comes out of construction with a step budget
\* that is neither positive nor -1: such a construction raises ValueError.
C13_InvalidNumStepsRejected ==
    [][/\ \A n \in ActorCounts, k \in EvalActorCounts, steps \in GivenNumSteps :
            (InvalidNumSteps(steps)
               /\ ParallelInit(n, 0, FALSE, 0, k, "schemes", steps)) =>
                (pc' = "error" /\ error' = "ValueError")
       /\ \A steps \in LocalNumSteps, expl \in ExplorationDicts,
             horizon \in 1..MaxHorizon, shared \in BOOLEAN,
             agent2policy \in AgentToPolicy :
            (InvalidNumSteps(steps)
               /\ LocalInit(steps, expl, horizon, shared, agent2policy)) =>
                (pc' = "error" /\ error' = "ValueError")]_vars

(* ---------- further claims on ParallelRolloutManager.collect ----------- *)

\* C14: a COLLECT_DONE message of the requested episode whose segment lags the
\* requested one by more than max_staleness leaves the quorum count, the combined
\* experience, both totals and episode_complete as they were; one that lags by at
\* least 1 and at most max_staleness is merged, but is not counted toward the
\* quorum and does not change episode_complete.
C14_StaleMessagesNeverCounted ==
    [][\A m \in CollectDoneMsgs :
          (m.episode_index = episode_index /\ m.segment_index < segment_index
             /\ CollectReceive(m)) =>
             /\ UNCHANGED <<num_finishes, episode_complete>>
             /\ (segment_index - m.segment_index > max_staleness) => LeavesResult
             /\ (segment_index - m.segment_index <= max_staleness) => Merges(m)]_vars

\* C14 witness: of the two messages of the requested episode that the round got, one
\* lagged by more than one segment and was left out, the other lagged by exactly one
\* and was merged; neither was counted, and neither's episode_end reached
\* episode_complete.
C14_Witness ==
    /\ RoundEnded
    /\ segment_index = MaxSegment /\ max_staleness = 1 /\ max_receive_attempts = 2
    /\ attempt = 2 /\ discarded = 0
    /\ Len(accepted) = 1 /\ total_env_steps = start_totals[2] + accepted[1].num_steps
    /\ num_finishes = 0 /\ ended = 0 /\ ~episode_complete

\* C15: when a collect round has ended, episode_complete is true if any response
\* counted in it (one of the requested episode and segment) reported episode_end,
\* whatever the responses received after that one reported.
C15_AnyEndCompletesRound ==
    [][(pc = "collect" /\ pc' = "idle" /\ ended' > 0) => episode_complete']_vars

(* -------- collect and evaluate of one ParallelRolloutManager ----------- *)

\* a training loop on one manager: collect rounds, evaluations and resets in any
\* order, with blocking receives and the default number of receive attempts
ParallelConstructForTraining ==
    \E n \in ActorCounts, expl \in ExplorationDicts :
        ParallelInit(n, 0, FALSE, 0, 1, expl, -1) /\ UNCHANGED bus_vars

NextTraining ==
    \/ ParallelConstructForTraining
    \/ Reset
    \/ Collect
    \/ Receive
    \/ Evaluate
    \/ ReceiveEvaluation

SpecTraining == Init /\ [][NextTraining]_vars

\* the step is the return of a collect call
CollectReturns == pc = "collect" /\ pc' = "idle"

C17_LocalEpisodeStepsSchemesOnce ==
    [][\A ep \in Episodes, seg \in 0..MaxSegment, psd \in LocalPolicyStates :
          (LocalCollect(ep, seg, psd) /\ pc' = "idle") =>
             /\ ~env_state' =>
                   /\ has_episode_complete' /\ episode_complete'
                   /\ exploration_steps' =
                         IF exploration_dict = "schemes" THEN exploration_steps + 1
                         ELSE exploration_steps
             /\ env_state' =>
                   /\ exploration_steps' = exploration_steps
                   /\ steps_executed' = num_steps
             /\ ~env_state =>
                   /\ remaining_before' = env_horizon
                   /\ env_step_index' = steps_executed'
             /\ env_state =>
                   /\ remaining_before' = env_horizon - env_step_index
                   /\ env_step_index' = env_step_index + steps_executed']_vars

\* C17 witness: a manager with schemes and a step budget of one has finished its
\* second episode, each in several collect calls: the schemes have taken two steps.
C17_Witness ==
    /\ LocalCollectEnded /\ ~env_state /\ episode_complete
    /\ exploration_dict = "schemes" /\ exploration_steps = 2
    /\ num_steps = 1 /\ env_horizon > 1 /\ steps_executed = 1

(* ------------- the COLLECT broadcast of the parallel manager ----------- *)

\* C18: every collect call of the parallel manager hands exactly one message to the
\* proxy, a COLLECT broadcast to all actors that carries the requested episode and
\* segment, the configured step budget and the given policy state; the message is
\* out before the first receive attempt and no other message follows it.
C18_OneCollectBroadcast ==
    (kind = "parallel" /\ last_call = "collect") =>
        /\ Len(sent) = 1
        /\ sent[1].tag = "COLLECT" /\ sent[1].to = "actor"
        /\ sent[1].episode_index = episode_index
        /\ sent[1].segment_index = segment_index
        /\ sent[1].num_steps = num_steps
        /\ sent[1].policy = policy_state_dict

(* ---------- further claims on ParallelRolloutManager.evaluate ---------- *)

\* C19: no step of evaluate of the parallel manager, the scatter or the receipt of
\* any message, changes episode_complete, the exploration-dirty flag, the steps
\* taken by the exploration schemes, total_experiences_collected or total_env_steps.
C19_EvaluateLeavesTraining ==
    [][(Evaluate \/ ReceiveEvaluation) =>
          UNCHANGED <<has_episode_complete, episode_complete, exploration_update,
                      exploration_steps, total_experiences_collected,
                      total_env_steps>>]_vars

\* C19 witness: an evaluation has returned on a manager whose last collect round
\* completed an episode: the flag is still true, the schemes are still dirty and
\* the totals still hold what the round collected.
C19_Witness ==
    /\ EvaluateEnded /\ Len(answered) = num_eval_actors
    /\ episode_complete /\ exploration_update /\ exploration_steps > 0
    /\ total_env_steps > 0 /\ total_experiences_collected > 0

\* an EVAL_DONE of the requested episode reaches the receive loop of evaluate
AnswerArrives ==
    \E m \in EvalDoneMsgs(Actors) :
        m.episode_index = episode_index /\ EvaluateReceive(m) /\ UNCHANGED bus_vars

\* evaluate on a bus where the actors go on answering the EVAL requests
SpecEvaluateAnswered == SpecEvaluate /\ WF_vars(AnswerArrives)

\* C20: evaluate goes on receiving exactly as long as it has counted fewer than
\* num_eval_actors EVAL_DONE messages of the requested episode, and has returned
\* once it has counted that many; each such message is counted once, and a message
\* of another kind or episode is neither counted nor recorded; and when the answers
\* keep arriving, an evaluate call eventually returns.
C20_EvaluateWaitsForAllAnswers ==
    /\ []((kind = "parallel" /\ last_call = "evaluate") =>
             /\ pc \in {"evaluate", "idle"}
             /\ pc = "evaluate" <=> eval_finishes < num_eval_actors
             /\ pc = "idle" <=> eval_finishes = num_eval_actors)
    /\ [][\A m \in Messages(Actors) :
             EvaluateReceive(m) =>
                IF m.tag = "EVAL_DONE" /\ m.episode_index = episode_index
                  THEN eval_finishes' = eval_finishes + 1
                  ELSE UNCHANGED <<pc, eval_finishes, env_summary_dict, answered,
                                   result>>]_vars
    /\ (pc = "evaluate") ~> (pc = "idle" /\ eval_finishes = num_eval_actors)

\* C20 witness: an evaluation with two requests is waiting with one answer counted.
C20_Witness ==
    pc = "evaluate" /\ num_eval_actors = 2 /\ eval_finishes = 1 /\ Len(answered) = 1

(* ------------- policies the local manager does not have ---------------- *)

\* C21: a collect call of the local manager whose policy state names a policy that
\* the manager does not have raises an error before any environment step is made
\* (the environment has at most been reset and started), and leaves episode_complete
\* and the exploration schemes as they were; and constructing a local manager whose
\* agent2policy refers to a policy that is not among its policies raises an error.
C21_UnknownPolicyRejected ==
    [][/\ \A ep \in Episodes, seg \in 0..MaxSegment, psd \in LocalPolicyStates :
            (~(DOMAIN psd \subseteq PolicyNames) /\ LocalCollect(ep, seg, psd)) =>
                /\ pc' = "error" /\ error' = "KeyError"
                /\ steps_executed' = 0
                /\ env_step_index' = IF env_state THEN env_step_index ELSE 0
                /\ UNCHANGED <<has_episode_complete, episode_complete,
                               exploration_steps>>
       /\ \A steps \in LocalNumSteps, expl \in ExplorationDicts,
             horizon \in 1..MaxHorizon, shared \in BOOLEAN,
             agent2policy \in AgentToPolicy :
            (~(Range(agent2policy) \subseteq PolicyNames)
               /\ LocalInit(steps, expl, horizon, shared, agent2policy)) =>
                (pc' = "error" /\ error' \in {"KeyError", "ValueError"})]_vars

\* C21 witness: after an episode that stepped the schemes, a collect with a policy
\* state for an unknown policy has failed without a step.
C21_Witness ==
    /\ kind = "local" /\ pc = "error" /\ error = "KeyError" /\ last_call = "collect"
    /\ ~(DOMAIN policy_state_dict \subseteq PolicyNames)
    /\ steps_executed = 0 /\ episode_complete /\ exploration_steps > 0

(* --------------- a parallel manager without exploration ---------------- *)

\* C23: on a parallel manager constructed with exploration_dict left at None, every
\* collect call, the first included, sends its COLLECT broadcast, without
\* exploration parameters, and raises no error.
C23_NoSchemesCollectsNormally ==
    [][\A ep \in Episodes, seg \in 0..MaxSegment, psd \in PolicyStates :
          (exploration_dict = "None" /\ CollectBegin(ep, seg, psd)) =>
             /\ pc' = "collect" /\ error' = "none"
             /\ Len(sent') = 1
             /\ sent'[1].tag = "COLLECT" /\ ~sent'[1].exploration]_vars

(* ------------ collect rounds with the actors on the bus ---------------- *)

\* the manager with blocking receives and the default number of receive attempts
ParallelConstructOnBus ==
    \E n \in ActorCounts, staleness \in 0..MaxStaleness, expl \in ExplorationDicts :
        ParallelInit(n, 0, FALSE, staleness, 1, expl, -1) /\ UNCHANGED bus_vars

\* line 316: ibroadcast delivers the COLLECT request to every actor
Delivered(request, actors, r) ==
    {[actor |-> a, round |-> r, body |-> request] : a \in actors}

\* the answer of an actor to a COLLECT request: one COLLECT_DONE of the episode and
\* the segment the request asked for
Answer(q, rollout, episode_end) ==
    [source |-> q.actor, round |-> q.round,
     msg |-> [tag |-> "COLLECT_DONE", episode_index |-> q.body.episode_index,
              segment_index |-> q.body.segment_index, num_steps |-> rollout.num_steps,
              experiences |-> rollout.experiences, episode_end |-> episode_end]]

\* collect, lines 300-321, with the broadcast reaching the actors
CollectOnBus ==
    \E ep \in Episodes, seg \in 0..MaxSegment, psd \in PolicyStates :
        /\ round < MaxRounds
        /\ CollectBegin(ep, seg, psd)
        /\ IF pc' = "collect"
             THEN /\ round' = round + 1
                  /\ requests' = requests \cup Delivered(sent'[1], Actors, round + 1)
                  /\ merged_from' = <<>>
             ELSE UNCHANGED <<round, requests, merged_from>>
        /\ UNCHANGED inbox

\* what an actor reports whose roll-out made no step
IdleRollout == [experiences |-> EmptyDict, num_steps |-> 0]

\* an actor answers a request it holds; the answer waits in the manager's inbox
ActorAnswers ==
    \E q \in requests, rollout \in Rollouts \cup {IdleRollout},
       episode_end \in BOOLEAN :
        /\ requests' = requests \ {q}
        /\ inbox' = Append(inbox, Answer(q, rollout, episode_end))
        /\ UNCHANGED <<manager_vars, round, merged_from>>

\* line 323 with timeout None: receive_once blocks until there is a message, and
\* hands the loop of lines 322-347 the oldest unread one
ReceiveFromBus ==
    /\ inbox # <<>>
    /\ CollectReceive(Head(inbox).msg)
    /\ inbox' = Tail(inbox)
    /\ merged_from' =
          IF Len(accepted') > Len(accepted)
            THEN Append(merged_from, <<Head(inbox).source, Head(inbox).round>>)
            ELSE merged_from
    /\ UNCHANGED <<requests, round>>

NextBus ==
    \/ ParallelConstructOnBus
    \/ Reset
    \/ CollectOnBus
    \/ ActorAnswers
    \/ ReceiveFromBus

\* every request is answered, and a blocked receive returns once an answer is there
SpecBus ==
    Init /\ [][NextBus]_vars /\ WF_vars(ActorAnswers) /\ WF_vars(ReceiveFromBus)

\* C22: with blocking receives, the default number of receive attempts and actors
\* that answer every COLLECT broadcast with exactly one COLLECT_DONE of the requested
\* episode and segment, every collect round whose broadcast went out reaches the
\* quorum: while it runs, everything it has merged answers its own broadcast and
\* comes from distinct actors; when it has returned it has counted and merged
\* exactly one answer of each actor, and no request is unanswered and no answer is
\* unread, so that nothing is left over for a later round.
C22_RoundsReachQuorumCleanly ==
    /\ []((kind = "parallel" /\ pc \in {"collect", "idle"}) =>
             /\ \A i \in 1..Len(merged_from) : merged_from[i][2] = round
             /\ \A i, j \in 1..Len(merged_from) :
                   merged_from[i][1] = merged_from[j][1] => i = j
             /\ Len(accepted) = Len(merged_from))
    /\ [](RoundEnded =>
             /\ num_finishes = num_actors
             /\ {merged_from[i][1] : i \in 1..Len(merged_from)} = Actors
             /\ Len(merged_from) = num_actors
             /\ inbox = <<>> /\ requests = {})
    /\ (pc = "collect") ~> (pc = "idle" /\ num_finishes = num_actors)

\* C22 witness: the second round of a manager with two actors has returned, with the
\* answers of both merged.
C22_Witness ==
    /\ RoundEnded /\ round = 2 /\ num_actors = 2
    /\ Len(merged_from) = 2 /\ merged_from[1][1] # merged_from[2][1]
====
